---- MODULE Spec2Model ----
(***************************************************************************)
(* watchman: a personal process supervisor.  The model covers the          *)
(* reconciliation engine of src/src/state.rs (ProcessStatus, ProcessConfig *)
(* with update / fix / run / kill) running against the operating system's  *)
(* process table.  The program is single threaded; the process table is    *)
(* shared with the rest of the machine, so between any two calls into the  *)
(* system facade a process may exit or an unrelated one may start.  Every  *)
(* program step below is therefore one facade call together with the local *)
(* computation that follows it up to the next facade call.                 *)
(***************************************************************************)
EXTENDS Integers, Sequences, FiniteSets, TLC

VARIABLES
    state,    \* the registry: State = Vec<ProcessConfig>
    procs,    \* the OS process table: pid -> live process (or none)
    scan,     \* the (fixed) enumeration order of the process table
    pc,       \* where the program is: idle, inside an operation, returned, aborted
    op,       \* the operation in progress: [name, idx]
    stack,    \* kill's recursion: the local `res` of each frame waiting for the inner kill
    spawned,  \* run's local `res`: the pid run_from_string returned
    ret,      \* the value the operation returned
    old,      \* history: the record's status when the operation was called
    snap,     \* history: the process table when the operation was called
    quiet,    \* history: the process table was changed by nobody else since the call
    calls,    \* history: facade calls made by the operation so far, and what the last
              \* look-up by pid saw: no process, the record's command or another one
    streak,   \* history: run calls completed directly before this one that found the record Running
    local,    \* add's local `pc`: the record that is not in the registry yet
    bulk,     \* the registry operation in progress: update_all, fix_all, add, or none
    reg0,     \* history: the registry when the operation was called
    main,     \* main's position, arguments and locals, main.rs:77-96
    file      \* the persisted state file

vars == <<state, procs, scan, pc, op, stack, spawned, ret, old, snap, quiet, calls, streak,
          local, bulk, reg0, main, file>>

----------------------------------------------------------------------------
(* Bounds *)

MaxPid == 2
MaxDepth == 2
MaxStreak == 2

Pids == 1..MaxPid

(* Command lines are sequences of characters; only equality and length are  *)
(* ever looked at (state.rs:62, 108, 111).                                  *)
EmptyCmd == <<>>
ShortCmd == <<1>>
CmdA == <<1, 2>>
CmdB == <<2, 1>>
RecCmds == {ShortCmd, CmdA}
ProcCmds == {ShortCmd, CmdA, CmdB}

Names == {"none"}
Outputs == {"none"}

----------------------------------------------------------------------------
(* ProcessStatus, state.rs:15-31 *)

Disabled == [tag |-> "Disabled", pid |-> 0]
Running(p) == [tag |-> "Running", pid |-> p]
Invalid(p) == [tag |-> "Invalid", pid |-> p]
Stopped(p) == [tag |-> "Stopped", pid |-> p]

ProcessStatus ==
    {Disabled} \cup {Running(p) : p \in Pids} \cup {Invalid(p) : p \in Pids}
        \cup {Stopped(p) : p \in Pids}

ProcessStatus_default == Disabled

(* ProcessConfig, state.rs:35-42 *)
ProcessConfig ==
    [name : Names, cmd : RecCmds, status : ProcessStatus, output : Outputs]

----------------------------------------------------------------------------
(* The system facade (crate::system), the program's only view of the OS.   *)

NoProc == [live |-> FALSE, cmd |-> EmptyCmd]
Proc(c) == [live |-> TRUE, cmd |-> c]
ProcTable == [Pids -> {NoProc} \cup {Proc(c) : c \in ProcCmds}]

(* An Option is the set of its values: {} is None, {x} is Some(x). *)

get_by_pid(tbl, pid) ==
    IF pid \in Pids /\ tbl[pid].live
    THEN {[pid |-> pid, cmd |-> tbl[pid].cmd]}
    ELSE {}

Matching(tbl, cmd) == {p \in Pids : tbl[p].live /\ tbl[p].cmd = cmd}

FirstIn(order, S) ==
    IF order = "asc"
    THEN CHOOSE p \in S : \A q \in S : p <= q
    ELSE CHOOSE p \in S : \A q \in S : p >= q

get_by_cmd(tbl, order, cmd) ==
    IF Matching(tbl, cmd) = {}
    THEN {}
    ELSE LET p == FirstIn(order, Matching(tbl, cmd))
         IN  {[pid |-> p, cmd |-> tbl[p].cmd]}

kill_by_pid(tbl, pid) == pid \in Pids /\ tbl[pid].live

FreePids(tbl) == {p \in Pids : ~tbl[p].live}

(* The outcomes of a spawn request: an error, or a new detached process     *)
(* with the given command line at a pid that was free.                      *)
run_from_string(tbl, cmd) ==
    {[ok |-> FALSE, pid |-> 0, tbl |-> tbl]}
        \cup {[ok |-> TRUE, pid |-> q, tbl |-> [tbl EXCEPT ![q] = Proc(cmd)]] :
                 q \in FreePids(tbl)}

----------------------------------------------------------------------------
(* ProcessConfig's methods, state.rs:44-154 *)

is_running(status) == status.tag = "Running"

is_enabled(status) == status.tag # "Disabled"

get_pid(status) ==
    IF status.tag \in {"Running", "Invalid", "Stopped"} THEN {status.pid} ELSE {}

(* check_status forgetting the pid of a process that is gone *)
check_status_forgets(rec, tbl) ==
    IF get_pid(rec.status) = {}
    THEN Disabled
    ELSE LET pid == CHOOSE p \in get_pid(rec.status) : TRUE
             found == get_by_pid(tbl, pid)
         IN  IF found = {}
             THEN Disabled
             ELSE LET proc == CHOOSE x \in found : TRUE
                  IN  IF rec.cmd = proc.cmd
                      THEN Running(proc.pid)
                      ELSE Invalid(proc.pid)

(* check_status without the comparison of command lines *)
check_status_ignores_cmd(rec, tbl) ==
    IF get_pid(rec.status) = {}
    THEN Disabled
    ELSE LET pid == CHOOSE p \in get_pid(rec.status) : TRUE
         IN  IF get_by_pid(tbl, pid) = {} THEN Stopped(pid) ELSE Running(pid)

check_status(rec, tbl) ==
    IF get_pid(rec.status) = {}
    THEN Disabled
    ELSE LET pid == CHOOSE p \in get_pid(rec.status) : TRUE
             found == get_by_pid(tbl, pid)
         IN  IF found = {}
             THEN Stopped(pid)
             ELSE LET proc == CHOOSE x \in found : TRUE
                  IN  IF rec.cmd = proc.cmd
                      THEN Running(proc.pid)
                      ELSE Invalid(proc.pid)

(* check_status calls get_by_pid exactly when the record carries a pid *)
check_status_calls(status) == IF get_pid(status) = {} THEN 0 ELSE 1

(* What a look-up by pid shows of a command line *)
Seen(cmd, found) ==
    IF found = {}
    THEN "dead"
    ELSE IF (CHOOSE x \in found : TRUE).cmd = cmd THEN "same" ELSE "other"

(* update without the adoption look-up *)
update_adopts_never(status) == FALSE

(* update looking for a process to adopt whenever the record is enabled *)
update_adopts_always(status) == is_enabled(status)

(* update looking for a process to adopt without asking is_enabled *)
update_adopts_disabled(status) == ~is_running(status)

(* update, state.rs:79: the adoption lookup is made for these statuses *)
update_adopts(status) == is_enabled(status) /\ ~is_running(status)

(* update marking the record Running without taking the adopted pid *)
update_adopted_keeps_pid(status, found) ==
    IF found # {} THEN Running(status.pid) ELSE status

(* update, state.rs:81-83 *)
update_adopted(status, found) ==
    IF found # {}
    THEN Running((CHOOSE x \in found : TRUE).pid)
    ELSE status

(* update as a function of one snapshot of the process table, state.rs:75-85 *)
reconcile(rec, tbl, order) ==
    LET st == check_status(rec, tbl)
    IN  IF update_adopts(st)
        THEN update_adopted(st, get_by_cmd(tbl, order, rec.cmd))
        ELSE st

(* fix running every record, enabled or not *)
fix_runs_always(status) == TRUE

(* fix, state.rs:88 *)
fix_runs(status) == is_enabled(status)

(* run spawning whatever update found *)
run_spawns_always(status) == TRUE

(* run asking is_enabled where it should ask is_running *)
run_spawns_if_disabled(status) == ~is_enabled(status)

(* run, state.rs:98 *)
run_spawns(status) == ~is_running(status)

(* run, state.rs:107-116: what the look-up after the spawn leads to *)
run_verify(cmd, found) ==
    IF found = {}
    THEN "Ok"
    ELSE LET proc == CHOOSE x \in found : TRUE
         IN  IF Len(proc.cmd) < 2
             THEN "panic"
             ELSE IF cmd # proc.cmd THEN "panic" ELSE "Ok"

(* kill returning the inner kill's value instead of its own `res` *)
kill_returns_inner(stk, inner) == inner

(* kill, state.rs:128-131: the value the outermost kill returns is its own  *)
(* `res`; every frame drops the inner kill's value.                        *)
kill_returns(stk, inner) == IF stk = <<>> THEN inner ELSE stk[1]

BoolStr(b) == IF b THEN "true" ELSE "false"

(* kill signalling once and taking the process for gone *)
kill_match_gives_up(status, stk) ==
    CASE status.tag = "Running" /\ stk = <<>> ->
            [pc |-> "signal", status |-> status, ret |-> "none"]
      [] status.tag \in {"Running", "Stopped"} ->
            [pc |-> "returned", status |-> Disabled,
             ret |-> BoolStr(kill_returns(stk, FALSE))]
      [] OTHER ->
            [pc |-> "returned", status |-> status,
             ret |-> BoolStr(kill_returns(stk, FALSE))]

(* kill disabling an Invalid record as it disables a Stopped one *)
kill_match_disables_invalid(status, stk) ==
    CASE status.tag = "Running" ->
            [pc |-> "signal", status |-> status, ret |-> "none"]
      [] OTHER ->
            [pc |-> "returned", status |-> Disabled,
             ret |-> BoolStr(kill_returns(stk, FALSE))]

(* kill, state.rs:126-138, after its update *)
kill_match(status, stk) ==
    CASE status.tag = "Running" ->
            [pc |-> "signal", status |-> status, ret |-> "none"]
      [] status.tag = "Stopped" ->
            [pc |-> "returned", status |-> Disabled,
             ret |-> BoolStr(kill_returns(stk, FALSE))]
      [] OTHER ->
            [pc |-> "returned", status |-> status,
             ret |-> BoolStr(kill_returns(stk, FALSE))]

(* run, state.rs:98-119, after its update *)
run_match(status) ==
    IF run_spawns(status)
    THEN [pc |-> "spawn", status |-> status, ret |-> "none"]
    ELSE [pc |-> "returned", status |-> status, ret |-> "Ok"]

(* What the caller of update does once update has produced `status` *)
after_update(name, status, stk) ==
    CASE name = "update" -> [pc |-> "returned", status |-> status, ret |-> "unit"]
      [] name = "kill" -> kill_match(status, stk)
      [] OTHER -> run_match(status)

----------------------------------------------------------------------------
(* The state machine *)

NoOp == [name |-> "none", idx |-> 0]
NoCalls == [by_pid |-> 0, by_cmd |-> 0, spawn |-> 0, kill |-> 0, seen |-> "none"]
NoSnap == [p \in Pids |-> NoProc]
NoLocal == [name |-> "none", cmd |-> EmptyCmd, status |-> Disabled, output |-> "none"]
NoMain == [pc |-> "none"]
NoFile == [kind |-> "none"]

InOp == pc \in {"check", "adopt", "spawn", "verify", "signal"}

Init ==
    /\ state \in [1..1 -> ProcessConfig]
    /\ procs \in ProcTable
    /\ scan \in {"asc", "desc"}
    /\ pc = "idle"
    /\ op = NoOp
    /\ stack = <<>>
    /\ spawned = 0
    /\ ret = "none"
    /\ old = Disabled
    /\ snap = NoSnap
    /\ quiet = TRUE
    /\ calls = NoCalls
    /\ streak = 0
    /\ local = NoLocal
    /\ bulk = "none"
    /\ reg0 = <<>>
    /\ main = NoMain
    /\ file = NoFile

(* self: a record of the registry, or add's local record (idx 0) *)
Rec == IF op.idx = 0 THEN local ELSE state[op.idx]

SetStatus(st) ==
    IF op.idx = 0
    THEN local' = [local EXCEPT !.status = st] /\ UNCHANGED state
    ELSE state' = [state EXCEPT ![op.idx].status = st] /\ UNCHANGED local

Enter(name, i) ==
    /\ pc = "idle"
    /\ i \in 1..Len(state)
    /\ op' = [name |-> name, idx |-> i]
    /\ stack' = <<>>
    /\ spawned' = 0
    /\ old' = state[i].status
    /\ snap' = procs
    /\ quiet' = TRUE
    /\ calls' = NoCalls
    /\ reg0' = state
    /\ UNCHANGED <<state, procs, scan, local, bulk, main, file>>

(* update(&mut self), state.rs:75 *)
update(i) ==
    /\ Enter("update", i)
    /\ pc' = "check"
    /\ ret' = "none"
    /\ streak' = 0

(* run(&mut self), state.rs:95 *)
run(i) ==
    /\ Enter("run", i)
    /\ pc' = "check"
    /\ ret' = "none"
    /\ UNCHANGED streak

(* kill(&mut self), state.rs:122 *)
kill(i) ==
    /\ Enter("kill", i)
    /\ pc' = "check"
    /\ ret' = "none"
    /\ streak' = 0

(* fix(&mut self), state.rs:87-93 *)
fix(i) ==
    /\ Enter("fix", i)
    /\ IF fix_runs(state[i].status)
       THEN pc' = "check" /\ ret' = "none"
       ELSE pc' = "returned" /\ ret' = "Ok"
    /\ streak' = 0

(* update, state.rs:76-79: self.status = self.check_status(), then either   *)
(* on to the adoption look-up or back to the caller                        *)
CheckStatus ==
    /\ pc = "check"
    /\ LET st == check_status(Rec, procs)
           nxt == after_update(op.name, st, stack)
       IN  /\ calls' = [calls EXCEPT
                          !.by_pid = @ + check_status_calls(Rec.status),
                          !.seen = IF get_pid(Rec.status) = {}
                                   THEN @
                                   ELSE Seen(Rec.cmd, get_by_pid(procs, Rec.status.pid))]
           /\ IF update_adopts(st)
              THEN /\ SetStatus(st)
                   /\ pc' = "adopt"
                   /\ UNCHANGED ret
              ELSE /\ SetStatus(nxt.status)
                   /\ pc' = nxt.pc
                   /\ ret' = nxt.ret
    /\ UNCHANGED <<procs, scan, op, stack, spawned, old, snap, quiet, streak>>
    /\ UNCHANGED <<bulk, reg0, main, file>>

(* update, state.rs:81-84: system::get_by_cmd(&self.cmd) *)
Adopt ==
    /\ pc = "adopt"
    /\ LET st == update_adopted(Rec.status, get_by_cmd(procs, scan, Rec.cmd))
           nxt == after_update(op.name, st, stack)
       IN  /\ SetStatus(nxt.status)
           /\ pc' = nxt.pc
           /\ ret' = nxt.ret
    /\ calls' = [calls EXCEPT !.by_cmd = @ + 1]
    /\ UNCHANGED <<procs, scan, op, stack, spawned, old, snap, quiet, streak>>
    /\ UNCHANGED <<bulk, reg0, main, file>>

(* run, state.rs:104-105: run_from_string(&self.cmd, logs_path)? *)
Spawn ==
    /\ pc = "spawn"
    /\ calls' = [calls EXCEPT !.spawn = @ + 1]
    /\ \E res \in run_from_string(procs, Rec.cmd) :
          /\ procs' = res.tbl
          /\ IF res.ok
             THEN /\ spawned' = res.pid
                  /\ SetStatus(Running(res.pid))
                  /\ pc' = "verify"
                  /\ UNCHANGED ret
             ELSE /\ pc' = "returned"
                  /\ ret' = "Err"
                  /\ UNCHANGED <<state, local, spawned>>
    /\ UNCHANGED <<scan, op, stack, old, snap, quiet, streak>>
    /\ UNCHANGED <<bulk, reg0, main, file>>

(* run, state.rs:107-119: get_by_pid(res).map(...) and Ok(()) *)
Verify ==
    /\ pc = "verify"
    /\ calls' = [calls EXCEPT !.by_pid = @ + 1,
                              !.seen = Seen(Rec.cmd, get_by_pid(procs, spawned))]
    /\ LET v == run_verify(Rec.cmd, get_by_pid(procs, spawned))
       IN  IF v = "panic"
           THEN pc' = "aborted" /\ ret' = "panic"
           ELSE pc' = "returned" /\ ret' = v
    /\ UNCHANGED <<state, procs, scan, op, stack, spawned, old, snap, quiet, streak>>
    /\ UNCHANGED <<local, bulk, reg0, main, file>>

(* kill, state.rs:127-130: system::kill_by_pid(pid), then self.kill() *)
Signal ==
    /\ pc = "signal"
    /\ Len(stack) < MaxDepth
    /\ stack' = Append(stack, kill_by_pid(procs, Rec.status.pid))
    /\ calls' = [calls EXCEPT !.kill = @ + 1]
    /\ pc' = "check"
    /\ UNCHANGED <<state, procs, scan, op, spawned, ret, old, snap, quiet, streak>>
    /\ UNCHANGED <<local, bulk, reg0, main, file>>

(* The caller has the result and goes on *)
Continue ==
    /\ pc = "returned"
    /\ pc' = "idle"
    /\ streak' = IF op.name = "run" /\ quiet /\ is_running(old)
                 THEN (IF streak < MaxStreak THEN streak + 1 ELSE streak)
                 ELSE 0
    /\ op' = NoOp
    /\ stack' = <<>>
    /\ spawned' = 0
    /\ ret' = "none"
    /\ old' = Disabled
    /\ snap' = NoSnap
    /\ quiet' = TRUE
    /\ calls' = NoCalls
    /\ local' = NoLocal
    /\ bulk' = "none"
    /\ reg0' = <<>>
    /\ UNCHANGED <<state, procs, scan, main, file>>

(* The rest of the machine: a live process exits (by itself or after a      *)
(* signal), or a process the supervisor did not start appears at a free pid *)
Disturbed ==
    /\ quiet' = (pc = "idle")
    /\ snap' = NoSnap
    /\ streak' = 0
    /\ UNCHANGED <<state, scan, pc, op, stack, spawned, ret, old, calls>>
    /\ UNCHANGED <<local, bulk, reg0, main, file>>

ProcExit(p) ==
    /\ pc = "idle" \/ InOp
    /\ procs[p].live
    /\ procs' = [procs EXCEPT ![p] = NoProc]
    /\ Disturbed

ProcStart(p, c) ==
    /\ pc = "idle" \/ InOp
    /\ ~procs[p].live
    /\ procs' = [procs EXCEPT ![p] = Proc(c)]
    /\ Disturbed

Next ==
    \/ \E i \in 1..Len(state) : update(i)
    \/ \E i \in 1..Len(state) : run(i)
    \/ \E i \in 1..Len(state) : kill(i)
    \/ \E i \in 1..Len(state) : fix(i)
    \/ CheckStatus
    \/ Adopt
    \/ Spawn
    \/ Verify
    \/ Signal
    \/ Continue
    \/ \E p \in Pids : ProcExit(p)
    \/ \E p \in Pids, c \in ProcCmds : ProcStart(p, c)

Spec == Init /\ [][Next]_vars

TypeOK ==
    /\ state \in [1..1 -> ProcessConfig]
    /\ procs \in ProcTable
    /\ pc \in {"idle", "check", "adopt", "spawn", "verify", "signal", "returned", "aborted"}
    /\ ret \in {"none", "unit", "Ok", "Err", "true", "false", "panic"}
    /\ old \in ProcessStatus
    /\ Len(stack) <= MaxDepth

----------------------------------------------------------------------------
(* Properties.  They are read at the instant an operation returns           *)
(* (pc = "returned") or aborts the program (pc = "aborted"); `old` and      *)
(* `snap` are the record's status and the process table at the call, and    *)
(* `quiet` says that the table has since been changed by the program only.  *)

Returned(name) == pc = "returned" /\ op.name = name
Ended(name) == pc \in {"returned", "aborted"} /\ op.name = name

OldPidDead == is_enabled(old) /\ ~snap[old.pid].live
OldPidMatches ==
    is_enabled(old) /\ snap[old.pid].live /\ snap[old.pid].cmd = Rec.cmd
OldPidDiffers ==
    is_enabled(old) /\ snap[old.pid].live /\ snap[old.pid].cmd # Rec.cmd
SomeMatch == Matching(snap, Rec.cmd) # {}

(* C1 as claimed: kill on a record whose stored status is Disabled or       *)
(* Invalid(pid) sends no termination request, leaves the status unchanged   *)
(* and returns false, whatever the process table holds.                     *)
C1_KillStoredInvalidNoOp ==
    (Returned("kill") /\ old.tag \in {"Disabled", "Invalid"})
        => (calls.kill = 0 /\ Rec.status = old /\ ret = "false")

(* C1 amended: kill is a no-op (no termination request, status unchanged,   *)
(* false returned, process table untouched) on a record stored as Disabled, *)
(* and on a record stored as Invalid(pid) while pid is still alive with a   *)
(* command line other than cmd and no live process has command line cmd.    *)
C1_KillNoOp ==
    (Returned("kill")
        /\ (old = Disabled
              \/ (quiet /\ old.tag = "Invalid" /\ OldPidDiffers /\ ~SomeMatch)))
        => /\ calls.kill = 0
           /\ calls.spawn = 0
           /\ Rec.status = old
           /\ ret = "false"
           /\ stack = <<>>
           /\ quiet => procs = snap

C1_Witness ==
    /\ Returned("kill")
    /\ quiet
    /\ old.tag = "Invalid"
    /\ OldPidDiffers
    /\ ~SomeMatch

(* C2: whenever run (called directly or through fix) returns normally after *)
(* a spawn that gave pid q, the status is Running(q) and the process table  *)
(* holds a live process at q whose command line equals cmd.                 *)
C2_RunReturnsVerified ==
    ((Returned("run") \/ Returned("fix")) /\ calls.spawn = 1 /\ ret = "Ok")
        => (Rec.status = Running(spawned) /\ procs[spawned] = Proc(Rec.cmd))

(* C3: update on an enabled record whose remembered pid is dead (or holds   *)
(* another command) while a live process has command line cmd sets the      *)
(* status to Running(q), q being the pid the look-up by command returns;    *)
(* a Disabled record is never made Running and no look-up by command is     *)
(* made for it.                                                             *)
C3_Adoption ==
    Returned("update") =>
        /\ (quiet /\ is_enabled(old) /\ ~OldPidMatches /\ SomeMatch)
              => /\ is_running(Rec.status)
                 /\ Rec.status.pid
                       \in {x.pid : x \in get_by_cmd(snap, scan, Rec.cmd)}
                 /\ Rec.status.pid # old.pid
                 /\ procs[Rec.status.pid] = Proc(Rec.cmd)
                 /\ calls.by_cmd = 1
        /\ old = Disabled => (Rec.status = Disabled /\ calls.by_cmd = 0)

C3_Witness ==
    /\ Returned("update")
    /\ quiet
    /\ old.tag = "Stopped"
    /\ OldPidDead
    /\ SomeMatch
    /\ is_running(Rec.status)

(* C4: update on an enabled record whose remembered pid is alive with a     *)
(* command line other than cmd, no live process having command line cmd,    *)
(* yields Invalid(pid) with the same pid, spawns nothing and terminates     *)
(* nothing.                                                                 *)
C4_Invalid ==
    (Returned("update") /\ quiet /\ OldPidDiffers /\ ~SomeMatch)
        => /\ Rec.status = Invalid(old.pid)
           /\ calls.spawn = 0
           /\ calls.kill = 0
           /\ procs = snap

C4_Witness ==
    /\ Returned("update")
    /\ quiet
    /\ old.tag = "Running"
    /\ OldPidDiffers
    /\ ~SomeMatch

(* C5: update on an enabled record (Running, Invalid or Stopped) whose      *)
(* remembered pid is alive with command line cmd yields Running(pid) with   *)
(* that pid and makes no look-up by command, also when other live processes *)
(* have command line cmd.                                                   *)
C5_Running ==
    (Returned("update") /\ quiet /\ OldPidMatches)
        => /\ Rec.status = Running(old.pid)
           /\ calls.by_pid = 1
           /\ calls.by_cmd = 0
           /\ procs = snap

C5_Witness ==
    /\ Returned("update")
    /\ quiet
    /\ old.tag = "Stopped"
    /\ OldPidMatches
    /\ \E q \in Matching(snap, Rec.cmd) :
          q # old.pid /\ q = FirstIn(scan, Matching(snap, Rec.cmd))

(* C6: update on a Disabled record leaves it Disabled and makes no facade   *)
(* call, neither a look-up by pid nor one by command, whatever the process  *)
(* table holds.                                                             *)
C6_Disabled ==
    (Returned("update") /\ old = Disabled)
        => (Rec.status = Disabled /\ calls = NoCalls)

C6_Witness ==
    /\ Returned("update")
    /\ old = Disabled
    /\ Matching(procs, Rec.cmd) # {}

(* C7: run on a record that is Running(pid), pid alive with command line    *)
(* cmd, spawns nothing, sends no termination request, returns Ok and leaves *)
(* the status and the process table as they were; so does the run that      *)
(* follows it directly.                                                     *)
C7_RunIdempotent ==
    (Returned("run") /\ quiet /\ old.tag = "Running" /\ OldPidMatches)
        => /\ ret = "Ok"
           /\ calls.spawn = 0
           /\ calls.kill = 0
           /\ Rec.status = old
           /\ procs = snap

C7_Witness ==
    /\ Returned("run")
    /\ quiet
    /\ old.tag = "Running"
    /\ OldPidMatches
    /\ streak >= 1

(* C8: a kill that finds the record Running requests the termination of    *)
(* that pid and calls itself.  When the outermost kill returns, no live     *)
(* process has command line cmd, the status is Disabled if the last look-up *)
(* of the pid found no process and Invalid if it found the pid held by      *)
(* another command, and the value returned is the first termination         *)
(* request's.                                                               *)
C8_KillRunning ==
    /\ (op.name = "kill" /\ pc = "signal") => is_running(Rec.status)
    /\ (op.name = "kill" /\ stack # <<>>) => calls.kill = Len(stack)
    /\ (Returned("kill") /\ stack # <<>>)
        => /\ Matching(procs, Rec.cmd) = {}
           /\ \/ Rec.status = Disabled /\ calls.seen = "dead"
              \/ Rec.status.tag = "Invalid" /\ calls.seen = "other"
           /\ ret = BoolStr(stack[1])
           /\ calls.kill = Len(stack)

C8_Witness ==
    /\ Returned("kill")
    /\ stack = <<TRUE, FALSE>>
    /\ ret = "true"
    /\ Rec.status = Disabled

(* What run does seen from its caller, the process table being changed by   *)
(* the program only: nothing if the reconciled status is Running; else one  *)
(* spawn request, which fails and leaves everything as reconciled, or gives *)
(* a fresh pid q, the new process at q and the status Running(q).           *)
RunContract ==
    LET r == reconcile([Rec EXCEPT !.status = old], snap, scan)
    IN  IF is_running(r)
        THEN /\ pc = "returned"
             /\ ret = "Ok"
             /\ Rec.status = r
             /\ procs = snap
             /\ calls.spawn = 0
        ELSE /\ calls.spawn = 1
             /\ \/ /\ pc = "returned"
                   /\ ret = "Err"
                   /\ Rec.status = r
                   /\ procs = snap
                \/ /\ spawned \in FreePids(snap)
                   /\ Rec.status = Running(spawned)
                   /\ procs = [snap EXCEPT ![spawned] = Proc(Rec.cmd)]
                   /\ IF Len(Rec.cmd) < 2
                      THEN pc = "aborted" /\ ret = "panic"
                      ELSE pc = "returned" /\ ret = "Ok"

(* C9: fix never changes intent.  On a Disabled record it makes no facade   *)
(* call, spawns nothing and leaves the status Disabled; on an enabled       *)
(* record it does what run does, the record is still enabled when it ends,  *)
(* with Ok or with an error, and Running when it returns Ok.                *)
C9_FixKeepsIntent ==
    /\ (Ended("fix") /\ old = Disabled)
          => /\ pc = "returned"
             /\ ret = "Ok"
             /\ calls = NoCalls
             /\ Rec.status = Disabled
             /\ quiet => procs = snap
    /\ (Ended("fix") /\ is_enabled(old))
          => /\ is_enabled(Rec.status)
             /\ ret = "Ok" => is_running(Rec.status)
    /\ (Ended("fix") /\ is_enabled(old) /\ quiet) => RunContract
    /\ (Ended("run") /\ quiet) => RunContract

C9_Witness ==
    /\ Ended("fix")
    /\ quiet
    /\ old.tag = "Invalid"
    /\ ret = "Err"
    /\ Rec.status.tag = "Invalid"

(* C10 as claimed: fix and run on an enabled record whose remembered pid is *)
(* dead, no live process having command line cmd, spawn exactly one process *)
(* for cmd and set the status to Running(new_pid), new_pid being the pid    *)
(* the spawn request returned.                                              *)
C10_AlwaysSpawns ==
    ((Ended("run") \/ Ended("fix")) /\ quiet /\ OldPidDead /\ ~SomeMatch)
        => /\ calls.spawn = 1
           /\ spawned \in FreePids(snap)
           /\ Rec.status = Running(spawned)
           /\ procs = [snap EXCEPT ![spawned] = Proc(Rec.cmd)]

(* C10 amended: in that case fix and run make exactly one spawn request;    *)
(* if it succeeds, exactly one process is spawned, for cmd, and the status  *)
(* is Running(new_pid), new_pid being the pid the request returned; if it   *)
(* fails, nothing is spawned, the status is Stopped(pid) and the error is   *)
(* returned.                                                                *)
C10_SpawnsWhenGone ==
    ((Ended("run") \/ Ended("fix")) /\ quiet /\ OldPidDead /\ ~SomeMatch)
        => /\ calls.spawn = 1
           /\ calls.kill = 0
           /\ IF ret = "Err"
              THEN /\ Rec.status = Stopped(old.pid)
                   /\ procs = snap
              ELSE /\ spawned \in FreePids(snap)
                   /\ Rec.status = Running(spawned)
                   /\ procs = [snap EXCEPT ![spawned] = Proc(Rec.cmd)]

C10_Witness ==
    /\ Returned("fix")
    /\ quiet
    /\ old.tag = "Stopped"
    /\ OldPidDead
    /\ ~SomeMatch
    /\ ret = "Ok"
    /\ Rec.status = Running(spawned)
    /\ spawned # old.pid

----------------------------------------------------------------------------
(* The registry, state.rs:182-228: State = Vec<ProcessConfig> and its       *)
(* operations update_all, fix_all and add.  An operation on the registry    *)
(* walks the records with the steps above; `calls`, `snap` and `quiet` then *)
(* cover the whole walk and `old` the record the walk stands at.            *)

RegLens == {1, 2}
RegRecords == ProcessConfig
Registries == UNION {[1..n -> RegRecords] : n \in RegLens}

(* update_all, state.rs:201: iter_mut().for_each visits every record *)
update_all_skips(i) == i + 2
update_all_next(i) == i + 1

(* fix_all, state.rs:205-207: collect::<MayError>() takes results while     *)
(* they are Ok and stops at the first Err                                   *)
fix_all_runs_on(r) == TRUE
fix_all_goes_on(r) == r = "Ok"

(* add, state.rs:195-196: pc.run()? returns the error before the push *)
add_pushes_always(r) == TRUE
add_pushes(r) == r = "Ok"

InitReg ==
    /\ state \in Registries
    /\ procs \in ProcTable
    /\ scan \in {"asc", "desc"}
    /\ pc = "idle"
    /\ op = NoOp
    /\ stack = <<>>
    /\ spawned = 0
    /\ ret = "none"
    /\ old = Disabled
    /\ snap = NoSnap
    /\ quiet = TRUE
    /\ calls = NoCalls
    /\ streak = 0
    /\ local = NoLocal
    /\ bulk = "none"
    /\ reg0 = <<>>
    /\ main = NoMain
    /\ file = NoFile

(* The walk calls `name` (update or fix) on record i *)
StartOn(name, i) ==
    /\ op' = [name |-> name, idx |-> i]
    /\ old' = state[i].status
    /\ stack' = <<>>
    /\ spawned' = 0
    /\ IF name = "fix" /\ ~fix_runs(state[i].status)
       THEN pc' = "returned" /\ ret' = "Ok"
       ELSE pc' = "check" /\ ret' = "none"

(* The walk is over an empty registry, or past its last record *)
WalkEmpty(name, r) ==
    /\ op' = [name |-> name, idx |-> 0]
    /\ old' = Disabled
    /\ stack' = <<>>
    /\ spawned' = 0
    /\ pc' = "returned"
    /\ ret' = r

BulkEnter(name) ==
    /\ pc = "idle"
    /\ bulk' = name
    /\ reg0' = state
    /\ snap' = procs
    /\ quiet' = TRUE
    /\ calls' = NoCalls
    /\ streak' = 0
    /\ UNCHANGED <<procs, scan, main, file>>

(* update_all(&mut self), state.rs:200-202 *)
update_all ==
    /\ BulkEnter("update_all")
    /\ IF state = <<>> THEN WalkEmpty("update", "unit") ELSE StartOn("update", 1)
    /\ UNCHANGED <<state, local>>

UpdateNext ==
    /\ pc = "returned"
    /\ bulk = "update_all"
    /\ update_all_next(op.idx) <= Len(state)
    /\ StartOn("update", update_all_next(op.idx))
    /\ UNCHANGED <<state, procs, scan, snap, quiet, calls, streak>>
    /\ UNCHANGED <<local, bulk, reg0, main, file>>

(* fix_all(&mut self), state.rs:204-210 *)
fix_all ==
    /\ BulkEnter("fix_all")
    /\ IF state = <<>> THEN WalkEmpty("fix", "Ok") ELSE StartOn("fix", 1)
    /\ UNCHANGED <<state, local>>

FixNext ==
    /\ pc = "returned"
    /\ bulk = "fix_all"
    /\ fix_all_goes_on(ret)
    /\ op.idx < Len(state)
    /\ StartOn("fix", op.idx + 1)
    /\ UNCHANGED <<state, procs, scan, snap, quiet, calls, streak>>
    /\ UNCHANGED <<local, bulk, reg0, main, file>>

(* add(&mut self, cmd, name, output), state.rs:185-195: the record is built *)
(* Disabled in the local `pc` and run there                                 *)
add(cmd, name, output) ==
    /\ BulkEnter("add")
    /\ Len(state) + 1 \in RegLens
    /\ local' = [name |-> name, cmd |-> cmd, status |-> Disabled, output |-> output]
    /\ op' = [name |-> "run", idx |-> 0]
    /\ old' = Disabled
    /\ stack' = <<>>
    /\ spawned' = 0
    /\ pc' = "check"
    /\ ret' = "none"
    /\ UNCHANGED state

(* add, state.rs:195-197: pc.run()?; self.push(pc); Ok(()) *)
AddPush ==
    /\ pc = "returned"
    /\ bulk = "add"
    /\ op.name = "run"
    /\ op' = [name |-> "add", idx |-> 0]
    /\ IF add_pushes(ret)
       THEN state' = Append(state, local)
       ELSE UNCHANGED state
    /\ UNCHANGED <<procs, scan, pc, stack, spawned, ret, old, snap, quiet, calls, streak>>
    /\ UNCHANGED <<local, bulk, reg0, main, file>>

(* The operation on the registry, or on one record, has returned *)
Done ==
    /\ pc = "returned"
    /\ CASE bulk = "update_all" -> update_all_next(op.idx) > Len(state)
         [] bulk = "fix_all" -> ~fix_all_goes_on(ret) \/ op.idx >= Len(state)
         [] bulk = "add" -> op.name = "add"
         [] OTHER -> TRUE

ContinueReg == Done /\ Continue

NextReg ==
    \/ update_all
    \/ UpdateNext
    \/ fix_all
    \/ FixNext
    \/ \E c \in RecCmds, n \in Names, o \in Outputs : add(c, n, o)
    \/ AddPush
    \/ \E i \in 1..Len(state) : update(i)
    \/ CheckStatus
    \/ Adopt
    \/ Spawn
    \/ Verify
    \/ ContinueReg

SpecReg == InitReg /\ [][NextReg]_vars

----------------------------------------------------------------------------
(* The persisted state, state.rs:15-42 and 212-228: a JSON array of         *)
(* records.  A JSON value is absent, null, a string, or the one-key object  *)
(* serde writes for an enum variant that carries a value.                   *)

Absent == [j |-> "absent"]
JNull == [j |-> "null"]
JStr(s) == [j |-> "str", s |-> s]
JVariant(k, n) == [j |-> "obj", k |-> k, n |-> n]

FileNames == {"none", "web"}
FileOutputs == {"none", "log"}

(* Serialize for Option<String> and Option<PathBuf>, state.rs:37,41 *)
ser_option_skips_none(x) == IF x = "none" THEN Absent ELSE JStr(x)
ser_option(x) == IF x = "none" THEN JNull ELSE JStr(x)

(* Serialize for ProcessStatus, state.rs:15-25 *)
ser_status(st) ==
    IF st = Disabled THEN JStr("Disabled") ELSE JVariant(st.tag, st.pid)

(* Serialize for ProcessConfig, state.rs:35-42: every field is written *)
serialize(rec) ==
    [name |-> ser_option(rec.name),
     cmd |-> JStr(rec.cmd),
     status |-> ser_status(rec.status),
     output |-> ser_option(rec.output)]

(* Deserialize for an Option field: a missing field and null are None *)
de_option(v) == IF v \in {Absent, JNull} THEN "none" ELSE v.s

(* Deserialize for status, state.rs:39-40: #[serde(default)] *)
de_status(v) ==
    IF v = Absent THEN ProcessStatus_default
    ELSE IF v = JStr("Disabled") THEN Disabled
    ELSE [tag |-> v.k, pid |-> v.n]

(* Deserialize for ProcessConfig, state.rs:35-42: cmd is required *)
de_valid(p) == p.cmd # Absent

deserialize(p) ==
    [name |-> de_option(p.name),
     cmd |-> p.cmd.s,
     status |-> de_status(p.status),
     output |-> de_option(p.output)]

(* from_file falling back to an empty registry when the contents do not parse *)
from_file_or_empty(f) ==
    IF f.kind = "json" /\ \A i \in 1..Len(f.recs) : de_valid(f.recs[i])
    THEN [ok |-> TRUE, state |-> [i \in 1..Len(f.recs) |-> deserialize(f.recs[i])]]
    ELSE [ok |-> TRUE, state |-> <<>>]

(* from_file, state.rs:212-217: serde_json::from_str(&contents) *)
from_file(f) ==
    IF f.kind = "json" /\ \A i \in 1..Len(f.recs) : de_valid(f.recs[i])
    THEN [ok |-> TRUE, state |-> [i \in 1..Len(f.recs) |-> deserialize(f.recs[i])]]
    ELSE [ok |-> FALSE, state |-> <<>>]

(* to_file, state.rs:219-228: what a complete write leaves in the file *)
to_file(st) == [kind |-> "json", recs |-> [i \in 1..Len(st) |-> serialize(st[i])]]

(* The files the program starts from *)
PersistedStatuses == {Absent} \cup {ser_status(st) : st \in ProcessStatus}
PersistedAny ==
    [name : {Absent, JNull, JStr("web")},
     cmd : {Absent} \cup {JStr(c) : c \in RecCmds},
     status : PersistedStatuses,
     output : {Absent, JNull, JStr("log")}]
PersistedPlain ==
    [name : {JNull},
     cmd : {JStr(c) : c \in RecCmds},
     status : PersistedStatuses \ {Absent},
     output : {JNull}]
PersistedFew ==
    [name : {JNull},
     cmd : {JStr(CmdA)},
     status : {ser_status(Disabled), ser_status(Stopped(1))},
     output : {JNull}]
JsonFiles(P, lens) == {[kind |-> "json", recs |-> r] : r \in UNION {[1..n -> P] : n \in lens}}
OtherFiles == {[kind |-> k] : k \in {"missing", "unreadable", "malformed"}}

----------------------------------------------------------------------------
(* main, main.rs:39-96 *)

Args == {"none", "config", "add", "show"}

Main0(a, f) ==
    [pc |-> "start", args |-> a, ret |-> "none", fix_ret |-> "none",
     defs |-> <<>>, sel |-> {}, i |-> 0, file0 |-> f, writes |-> 0]

InitMain ==
    /\ \E a \in Args :
          /\ IF a = "config"
             THEN file \in JsonFiles(PersistedAny, {0} \cup RegLens) \cup OtherFiles
             ELSE file \in JsonFiles(PersistedPlain, {0, 1})
                            \cup JsonFiles(PersistedFew, {2}) \cup OtherFiles
          /\ main = Main0(a, file)
          /\ IF a = "none" THEN procs \in ProcTable ELSE procs = NoSnap
    /\ state = <<>>
    /\ scan = "asc"
    /\ pc = "idle"
    /\ op = NoOp
    /\ stack = <<>>
    /\ spawned = 0
    /\ ret = "none"
    /\ old = Disabled
    /\ snap = NoSnap
    /\ quiet = TRUE
    /\ calls = NoCalls
    /\ streak = 0
    /\ local = NoLocal
    /\ bulk = "none"
    /\ reg0 = <<>>

MainExit(r) == main' = [main EXCEPT !.pc = "exit", !.ret = r]
MainPanic == main' = [main EXCEPT !.pc = "aborted", !.ret = "panic"]
MainOnly ==
    UNCHANGED <<state, procs, scan, pc, op, stack, spawned, ret, old, snap,
                quiet, calls, streak, local, bulk, reg0>>

(* main.rs:81: fs::canonicalize(Path::new(file_input))? *)
Canonicalize ==
    /\ main.pc = "start"
    /\ IF file.kind = "missing"
       THEN MainExit("Err")
       ELSE main' = [main EXCEPT !.pc = "load"]
    /\ UNCHANGED file
    /\ MainOnly

(* main.rs:82 and state.rs:212-217: State::from_file(&state_path)? *)
Load ==
    /\ main.pc = "load"
    /\ LET r == from_file(file)
       IN  IF file.kind = "unreadable"
           THEN MainPanic /\ UNCHANGED state
           ELSE IF r.ok
           THEN main' = [main EXCEPT !.pc = "match"] /\ state' = r.state
           ELSE MainExit("Err") /\ UNCHANGED state
    /\ UNCHANGED <<file, procs, scan, pc, op, stack, spawned, ret, old, snap,
                   quiet, calls, streak, local, bulk, reg0>>

(* main.rs:85-91: match args.cmd *)
Match ==
    /\ main.pc = "match"
    /\ CASE main.args = "config" -> main' = [main EXCEPT !.pc = "save"]
         [] main.args = "none" -> main' = [main EXCEPT !.pc = "interactive"]
         [] OTHER -> MainPanic
    /\ UNCHANGED file
    /\ MainOnly

(* The callee has returned to main, which goes on *)
Resume ==
    /\ pc' = "idle"
    /\ op' = NoOp
    /\ stack' = <<>>
    /\ spawned' = 0
    /\ ret' = "none"
    /\ old' = Disabled
    /\ snap' = NoSnap
    /\ quiet' = TRUE
    /\ calls' = NoCalls
    /\ streak' = 0
    /\ local' = NoLocal
    /\ bulk' = "none"
    /\ reg0' = <<>>
    /\ UNCHANGED <<state, procs, scan, file>>

(* interactive, main.rs:70: state.fix_all(); the result is not used *)
InteractiveFixAll == main.pc = "interactive" /\ fix_all

AfterFixAll ==
    /\ main.pc = "interactive"
    /\ bulk = "fix_all"
    /\ Done
    /\ main' = [main EXCEPT !.pc = "prompt", !.fix_ret = ret]
    /\ Resume

(* update_from_user, main.rs:41-48: defs and the user's selections; *)
(* interact().unwrap() panics when the prompt fails                 *)
Prompt ==
    /\ main.pc = "prompt"
    /\ \/ \E sel \in SUBSET (1..Len(state)) :
             main' = [main EXCEPT !.pc = "diff", !.sel = sel, !.i = 1,
                        !.defs = [i \in 1..Len(state) |-> is_enabled(state[i].status)]]
       \/ MainPanic
    /\ UNCHANGED file
    /\ MainOnly

(* update_from_user, main.rs:50-64: the match on (old, new) *)
DiffKill ==
    /\ main.pc = "diff"
    /\ main.i <= Len(state)
    /\ main.defs[main.i] /\ main.i \notin main.sel
    /\ kill(main.i)

DiffRun ==
    /\ main.pc = "diff"
    /\ main.i <= Len(state)
    /\ ~main.defs[main.i] /\ main.i \in main.sel
    /\ run(main.i)

DiffSkip ==
    /\ main.pc = "diff"
    /\ pc = "idle"
    /\ main.i <= Len(state)
    /\ main.defs[main.i] = (main.i \in main.sel)
    /\ main' = [main EXCEPT !.i = @ + 1]
    /\ UNCHANGED file
    /\ MainOnly

(* kill or run has returned; its result is not used, main.rs:55,59 *)
DiffReturn ==
    /\ main.pc = "diff"
    /\ bulk = "none"
    /\ Done
    /\ main' = [main EXCEPT !.i = @ + 1]
    /\ Resume

(* update_from_user and interactive return the state, main.rs:66,74 *)
DiffEnd ==
    /\ main.pc = "diff"
    /\ pc = "idle"
    /\ main.i > Len(state)
    /\ main' = [main EXCEPT !.pc = "save", !.defs = <<>>, !.sel = {}, !.i = 0]
    /\ UNCHANGED file
    /\ MainOnly

(* While kill waits for them to go, the processes with its command line exit *)
ExitDuringKill(p) ==
    /\ op.name = "kill"
    /\ InOp
    /\ p \in Matching(procs, Rec.cmd)
    /\ ProcExit(p)

(* main.rs:93-95 and state.rs:219-228: state.to_file(&state_path)?; Ok(())  *)
(* File::create fails and leaves the file, or truncates it; the write then  *)
(* completes or fails                                                       *)
Save ==
    /\ main.pc = "save"
    /\ \/ MainExit("Err") /\ UNCHANGED file
       \/ /\ file' = [kind |-> "malformed"]
          /\ main' = [main EXCEPT !.pc = "exit", !.ret = "Err", !.writes = @ + 1]
       \/ /\ file' = to_file(state)
          /\ main' = [main EXCEPT !.pc = "exit", !.ret = "Ok", !.writes = @ + 1]
    /\ MainOnly

NextMain ==
    \/ Canonicalize
    \/ Load
    \/ Match
    \/ InteractiveFixAll
    \/ FixNext
    \/ AfterFixAll
    \/ Prompt
    \/ DiffKill
    \/ DiffRun
    \/ DiffSkip
    \/ DiffReturn
    \/ DiffEnd
    \/ Save
    \/ CheckStatus
    \/ Adopt
    \/ Spawn
    \/ Verify
    \/ Signal
    \/ \E p \in Pids : ExitDuringKill(p)

SpecMain == InitMain /\ [][NextMain]_vars

----------------------------------------------------------------------------
(* Properties of the registry operations and of main.  `reg0` is the        *)
(* registry when the operation was called; on a walk `op.idx` is the record *)
(* the walk stands at.                                                      *)

(* fix_all fixes the records in order and stops at the first fix that       *)
(* fails: the records behind the one the walk stands at are as they were,   *)
(* the look-ups and spawn requests made are those of the records walked,    *)
(* and a failed fix ends fix_all with that error.                           *)
FixAllInOrder ==
    bulk = "fix_all" =>
        /\ \A j \in 1..Len(state) : j > op.idx => state[j] = reg0[j]
        /\ Len(state) = Len(reg0)
        /\ calls.spawn <= op.idx
        /\ calls.by_cmd <= op.idx
        /\ calls.by_pid <= 2 * op.idx
        /\ calls.kill = 0
        /\ (pc = "returned" /\ ret = "Err") => Done

FixAllFailedFirst ==
    /\ bulk = "fix_all"
    /\ Done
    /\ ret = "Err"
    /\ op.idx = 1
    /\ Len(state) = 2
    /\ is_enabled(state[2].status)

(* C11: fix_all fixes the records in order and stops at the first failing   *)
(* fix, leaving the records after it untouched; the failure is returned as  *)
(* an error and no calling path swallows it: when the fix_all that the      *)
(* interactive path calls has failed, main does not go on to the prompt but *)
(* ends with that error.                                                    *)
C11_FixAllErrorSurfaced ==
    /\ FixAllInOrder
    /\ main.pc # "none" /\ main.fix_ret = "Err"
          => main.pc = "exit" /\ main.ret = "Err"

(* C12: add builds a Disabled record and runs it; while it runs, and if the *)
(* run fails or aborts, the registry is as it was; if the run returns an    *)
(* error, add returns that error; if it succeeds, the registry has grown by *)
(* exactly one record, appended last, with the given fields and status      *)
(* Running(q), q the pid of the one process spawned, and the earlier        *)
(* records and their order are unchanged.                                   *)
C12_Add ==
    /\ (bulk = "add" /\ op.name = "run") => state = reg0
    /\ (bulk = "add" /\ Done) =>
          IF ret = "Ok"
          THEN /\ Len(state) = Len(reg0) + 1
               /\ SubSeq(state, 1, Len(reg0)) = reg0
               /\ state[Len(state)] = local
               /\ local.status = Running(spawned)
               /\ spawned \in FreePids(snap)
               /\ procs = [snap EXCEPT ![spawned] = Proc(local.cmd)]
               /\ calls.spawn = 1
               /\ calls.by_cmd = 0
               /\ calls.kill = 0
          ELSE /\ ret = "Err"
               /\ state = reg0
               /\ procs = snap
               /\ calls.spawn = 1

C12_Witness ==
    /\ bulk = "add"
    /\ Done
    /\ ret = "Ok"
    /\ Len(reg0) = 1
    /\ reg0[1].cmd = local.cmd
    /\ Matching(snap, local.cmd) # {}
    /\ state = Append(reg0, local)
    /\ local.status = Running(spawned)

(* Two records share the command line and the second is Stopped(x), x dead  *)
PairCmd == state[1].cmd
SharedCmd == Len(state) = 2 /\ state[1].cmd = state[2].cmd
UpdateSecond ==
    /\ bulk = "none"
    /\ Returned("update")
    /\ op.idx = 2
    /\ SharedCmd
    /\ old.tag = "Stopped"
    /\ ~snap[old.pid].live
    /\ state[1].status.tag = "Running"
    /\ state[1].status.pid \in Matching(snap, PairCmd)
FixPair ==
    /\ bulk = "fix_all"
    /\ Done
    /\ ret = "Ok"
    /\ SharedCmd
    /\ is_enabled(reg0[1].status)
    /\ reg0[2].status.tag = "Stopped"
    /\ ~snap[reg0[2].status.pid].live

Resaved == main.pc = "exit" /\ main.args = "config" /\ main.ret = "Ok"
AllPresent(f) ==
    \A i \in 1..Len(f.recs) :
        \A k \in {"name", "cmd", "status", "output"} : f.recs[i][k] # Absent
Loaded == main.pc \in {"match", "interactive", "prompt", "diff", "save", "exit"} /\ main.ret # "Err"
ReloadsAs(st) == from_file(to_file(st)) = [ok |-> TRUE, state |-> st]

(* C14 as claimed: save(load(state)) reproduces the persisted state, same   *)
(* records, same fields, same order, for every persisted state that loads,  *)
(* those whose records lack the status field included; and                  *)
(* load(save(registry)) = registry for every registry.                      *)
C14_RoundTrip ==
    /\ Resaved => file = main.file0
    /\ Loaded => ReloadsAs(state)

(* C14 amended: save(load(state)) reproduces the persisted state when every *)
(* record carries its four fields; a field that is absent (status, name or  *)
(* output) is written out, an absent status as Disabled, so that the saved  *)
(* state has the same records in the same order and loads as the same       *)
(* registry; and load(save(registry)) = registry for every registry.        *)
C14_RoundTripWhenComplete ==
    /\ Resaved =>
          /\ AllPresent(main.file0) => file = main.file0
          /\ AllPresent(file)
          /\ Len(file.recs) = Len(main.file0.recs)
          /\ from_file(file) = from_file(main.file0)
          /\ \A i \in 1..Len(file.recs) :
                main.file0.recs[i].status = Absent
                    => file.recs[i].status = JStr("Disabled")
    /\ Loaded => ReloadsAs(state)

C14_Witness ==
    /\ Resaved
    /\ Len(file.recs) = 2
    /\ main.file0.recs[1].status = Absent
    /\ file.recs[1].status = JStr("Disabled")
    /\ main.file0.recs[2].status = JVariant("Stopped", 1)
    /\ main.file0.recs[2].name = JStr("web")
    /\ AllPresent([kind |-> "json", recs |-> <<main.file0.recs[2]>>])
    /\ file.recs[2] = main.file0.recs[2]

(* C16: update_all sends no spawn and no termination request and leaves the *)
(* process table as it is; it changes nothing of a record but its status,   *)
(* and the status of each record it has walked is the result of reconciling *)
(* that record alone against the table, whatever the other records are and  *)
(* wherever the record stands; when it has returned, reconciling any record *)
(* again against the same table changes nothing.                            *)
C16_UpdateAll ==
    bulk = "update_all" =>
        /\ calls.spawn = 0
        /\ calls.kill = 0
        /\ procs = snap
        /\ Len(state) = Len(reg0)
        /\ \A j \in 1..Len(state) :
              /\ [state[j] EXCEPT !.status = reg0[j].status] = reg0[j]
              /\ j > op.idx => state[j] = reg0[j]
              /\ (j < op.idx \/ (j = op.idx /\ pc = "returned"))
                    => state[j].status = reconcile(reg0[j], snap, scan)
        /\ Done => \A j \in 1..Len(state) :
                      /\ state[j].status = reconcile(reg0[j], snap, scan)
                      /\ reconcile(state[j], procs, scan) = state[j].status

C16_Witness ==
    /\ bulk = "update_all"
    /\ Done
    /\ Len(state) = 2
    /\ state[1].cmd = state[2].cmd
    /\ reg0[1].status.tag = "Running"
    /\ state[1].status.tag = "Stopped"
    /\ reg0[2].status = Disabled
    /\ state[2].status = Disabled
    /\ Matching(procs, ShortCmd) # {}

(* One step takes the status of a record from a to b *)
PidStep(a, b) ==
    (is_enabled(a) /\ a # b) =>
        \/ /\ pc = "spawn"
           /\ b = Running(spawned')
           /\ spawned' \in FreePids(procs)
        \/ /\ pc = "adopt"
           /\ b.tag = "Running"
           /\ get_by_cmd(procs, scan, Rec.cmd) # {}
           /\ b.pid = (CHOOSE x \in get_by_cmd(procs, scan, Rec.cmd) : TRUE).pid
        \/ /\ pc = "check"
           /\ is_enabled(b)
           /\ b.pid = a.pid
        \/ /\ pc = "adopt"
           /\ op.name = "kill"
           /\ a.tag = "Stopped"
           /\ b = Disabled

(* C17: across update, run, kill and fix the pid carried by an enabled      *)
(* status changes only in the step that spawns, to the pid spawned, or in   *)
(* the step that adopts, to the pid the look-up by command line found; the  *)
(* check of the remembered pid keeps it while the status moves between      *)
(* Running, Invalid and Stopped; and the pid is dropped only by the step of *)
(* kill that sets Disabled.                                                 *)
C17_PidChanges ==
    [][\A i \in 1..Len(state) : PidStep(state[i].status, state'[i].status)]_vars

C17_Witness ==
    /\ Returned("update")
    /\ old.tag = "Running"
    /\ Rec.status = Invalid(old.pid)
    /\ calls.by_cmd = 1

(* The state file does not hold a registry: main cannot load it *)
Unloadable(f) ==
    \/ f.kind # "json"
    \/ \E i \in 1..Len(f.recs) : f.recs[i].cmd = Absent

(* C18: in one run of main the state file is written at most once, and only *)
(* as the last step, when every operation on the registry has returned;     *)
(* until then, and for good when loading fails or when the program aborts   *)
(* (the panic of run's check after the spawn, of the prompt, of an          *)
(* unimplemented subcommand), the file is as it was.                        *)
C18_WriteLast ==
    main.pc # "none" =>
        /\ main.writes <= 1
        /\ main.writes = 1 =>
              /\ main.pc = "exit"
              /\ pc = "idle"
              /\ op = NoOp
              /\ bulk = "none"
        /\ main.writes = 0 => file = main.file0
        /\ (main.pc = "aborted" \/ pc = "aborted") => main.writes = 0
        /\ Unloadable(main.file0) =>
              /\ main.writes = 0
              /\ main.pc \in {"start", "load", "exit", "aborted"}
              /\ state = <<>>

C18_Witness ==
    /\ pc = "aborted"
    /\ ret = "panic"
    /\ op.name = "run"
    /\ main.pc = "diff"
    /\ main.fix_ret = "Ok"
    /\ main.writes = 0
    /\ file = main.file0
    /\ state # from_file(file).state

(* A run of main that goes through the prompt and writes the file *)
C18_Written ==
    /\ main.pc = "exit"
    /\ main.args = "none"
    /\ main.writes = 1
    /\ main.fix_ret = "Err"
    /\ file = to_file(state)
    /\ file # main.file0

(* C20: run makes its spawn request only when its own reconcile left the    *)
(* record without a process to track: on an enabled record the request      *)
(* comes after an adoption look-up, and while a live process has the        *)
(* command line run adopts it and spawns nothing; on a Disabled record      *)
(* there is no adoption look-up and run always makes the request, a live    *)
(* process with the same command line or not, and a request that succeeds   *)
(* adds a process with a fresh pid.                                         *)
C20_SpawnOnlyUntracked ==
    /\ pc = "spawn" =>
          /\ ~is_running(Rec.status)
          /\ calls.by_cmd = (IF is_enabled(old) THEN 1 ELSE 0)
    /\ (Ended("run") /\ quiet /\ is_enabled(old) /\ SomeMatch) =>
          /\ calls.spawn = 0
          /\ procs = snap
          /\ ret = "Ok"
          /\ is_running(Rec.status)
          /\ Rec.status.pid \in Matching(snap, Rec.cmd)
    /\ (Ended("run") /\ old = Disabled) =>
          /\ calls.spawn = 1
          /\ calls.by_cmd = 0
          /\ (quiet /\ ret # "Err") =>
                /\ spawned \in FreePids(snap)
                /\ Rec.status = Running(spawned)
                /\ procs = [snap EXCEPT ![spawned] = Proc(Rec.cmd)]

C20_Witness ==
    /\ Returned("run")
    /\ quiet
    /\ old = Disabled
    /\ SomeMatch
    /\ ret = "Ok"
    /\ Rec.status = Running(spawned)
    /\ Cardinality(Matching(procs, Rec.cmd)) = 2

----------------------------------------------------------------------------
(* kill against processes that go when they are signalled, state.rs:122-139 *)
(* While kill runs, processes exit and processes with another command line  *)
(* appear.  A process that was signalled exits in the end, and the program  *)
(* keeps taking its steps.                                                  *)

KillRecords == {r \in ProcessConfig : r.cmd = CmdA}

InitKill ==
    /\ state \in [1..1 -> KillRecords]
    /\ procs \in ProcTable
    /\ scan = "asc"
    /\ pc = "idle"
    /\ op = NoOp
    /\ stack = <<>>
    /\ spawned = 0
    /\ ret = "none"
    /\ old = Disabled
    /\ snap = NoSnap
    /\ quiet = TRUE
    /\ calls = NoCalls
    /\ streak = 0
    /\ local = NoLocal
    /\ bulk = "none"
    /\ reg0 = <<>>
    /\ main = NoMain
    /\ file = NoFile

(* kill, state.rs:127-130, deeper than MaxDepth frames: the frame and the   *)
(* look-ups made so far are no longer recorded                              *)
SignalDeep ==
    /\ pc = "signal"
    /\ Len(stack) = MaxDepth
    /\ calls' = [calls EXCEPT !.by_pid = 0, !.by_cmd = 0]
    /\ pc' = "check"
    /\ UNCHANGED <<state, procs, scan, op, stack, spawned, ret, old, snap, quiet, streak>>
    /\ UNCHANGED <<local, bulk, reg0, main, file>>

KillStep == CheckStatus \/ Adopt \/ Signal \/ SignalDeep

(* The process the record tracks has been sent a termination request *)
Signalled(p) ==
    /\ op.name = "kill"
    /\ stack # <<>>
    /\ is_running(Rec.status)
    /\ p = Rec.status.pid
    /\ p \in Matching(procs, Rec.cmd)
    /\ pc = "check" \/ (pc = "signal" /\ calls.seen = "same")

ExitInKill(p) == op.name = "kill" /\ InOp /\ ProcExit(p)

SignalledExit == \E p \in Pids : Signalled(p) /\ ExitInKill(p)

OtherStartInKill(p) ==
    /\ op.name = "kill"
    /\ InOp
    /\ ProcStart(p, CmdB)

NextKill ==
    \/ \E i \in 1..Len(state) : kill(i)
    \/ KillStep
    \/ Continue
    \/ \E p \in Pids : ExitInKill(p)
    \/ \E p \in Pids : OtherStartInKill(p)

SpecKill ==
    /\ InitKill
    /\ [][NextKill]_vars
    /\ WF_vars(KillStep)
    /\ WF_vars(SignalledExit)

KillRuns == op.name = "kill" /\ InOp
KillSignalled == Returned("kill") /\ stack # <<>>

(* kill returns only when no live process has the command line, and after a *)
(* termination request it always reconciles again                           *)
KillReturnsWhenGone ==
    /\ [](KillSignalled => Matching(procs, Rec.cmd) = {})
    /\ [][(op.name = "kill" /\ pc = "signal") => pc' \in {"signal", "check"}]_vars

(* C15 as claimed: kill does not return while the process it has signalled  *)
(* stays alive with command line cmd, and it calls itself again after every *)
(* termination request; when every signalled process leaves the process     *)
(* table in the end and no new process with command line cmd is started,    *)
(* kill returns in the end, with the record Disabled.                       *)
C15_KillEndsDisabled ==
    /\ KillReturnsWhenGone
    /\ KillRuns ~> Returned("kill")
    /\ [](KillSignalled => Rec.status = Disabled)

(* C15 amended: as claimed, but kill returns with the record Disabled or,   *)
(* when the pid it tracked has been taken by a process with another command *)
(* line, Invalid.                                                           *)
C15_KillEnds ==
    /\ KillReturnsWhenGone
    /\ KillRuns ~> Returned("kill")
    /\ [](KillSignalled =>
            \/ Rec.status = Disabled
            \/ Rec.status.tag = "Invalid" /\ calls.seen = "other")

C15_Witness ==
    /\ KillSignalled
    /\ Len(stack) = MaxDepth
    /\ calls.by_pid = 1
    /\ Rec.status = Disabled
    /\ ret = "true"

(* kill in a registry of two records that share the command line *)
InitKillPair ==
    /\ state \in [1..2 -> KillRecords]
    /\ procs \in ProcTable
    /\ scan = "asc"
    /\ pc = "idle"
    /\ op = NoOp
    /\ stack = <<>>
    /\ spawned = 0
    /\ ret = "none"
    /\ old = Disabled
    /\ snap = NoSnap
    /\ quiet = TRUE
    /\ calls = NoCalls
    /\ streak = 0
    /\ local = NoLocal
    /\ bulk = "none"
    /\ reg0 = <<>>
    /\ main = NoMain
    /\ file = NoFile

SpecKillPair == InitKillPair /\ [][NextKill]_vars

(* C19: kill on an enabled record returns only when no live process has the *)
(* record's command line: after every termination request it reconciles    *)
(* again, adopts whatever live process has the command line and requests    *)
(* its termination too, a process the other record tracks as Running        *)
(* included; the other record is left as it was.                            *)
C19_KillsEveryMatch ==
    /\ (Returned("kill") /\ is_enabled(old)) => Matching(procs, Rec.cmd) = {}
    /\ (op.name = "kill" /\ pc = "signal") =>
          /\ is_running(Rec.status)
          /\ calls.seen = "same" \/ calls.by_cmd > 0
    /\ op.name = "kill" =>
          \A j \in 1..Len(state) : j # op.idx => state[j] = reg0[j]

C19_Witness ==
    /\ Returned("kill")
    /\ op.idx = 1
    /\ old = Running(1)
    /\ state[2].status = Running(2)
    /\ stack = <<TRUE, TRUE>>
    /\ calls.kill = 2
    /\ calls.by_cmd = 2
    /\ Rec.status = Disabled
    /\ Matching(procs, Rec.cmd) = {}

====
